---- MODULE Spec2Model ----
(***************************************************************************)
(* Model of backend/app.py: the Flask proxy of the air-quality dashboard.  *)
(*                                                                         *)
(*  - compute_weighted_average / _safe_float: the weighted 7-day average   *)
(*    of one metric's series of daily samples (specification SpecAgg walks *)
(*    one series day by day, as the for loop does).                        *)
(*  - get_station_detail: fetch through the shared retrying session, the   *)
(*    except chain, the extraction of metrics_container, the aggregation   *)
(*    loop and the enriched response (specification Spec: one request;     *)
(*    specification SpecConc: several requests interleaved).               *)
(*                                                                         *)
(* JSON values are tagged records: Null, Num(n), Str(s), List(seq),        *)
(* Obj(f) with f a function from key strings to JSON values.  Python None  *)
(* is Null.  A Python float result is Flt(m), m in millionths, which is    *)
(* exact for round(x, 6).  The float the walk sums is Dec7(k), k in units  *)
(* of 10^-7: averages in the inputs are integers or have seven decimals.   *)
(***************************************************************************)
EXTENDS Integers, Sequences, FiniteSets, TLC

VARIABLES
    \* ---- compute_weighted_average, one call (SpecAgg) ----
    days,            \* the argument
    idx,             \* position of the for loop in days (next element, 1-based)
    weighted_sum,    \* local weighted_sum
    total_samples,   \* local total_samples
    considered,      \* local considered
    wpc,             \* "off" | "start" | "loop" | "final" | "done" | "raised"
    result,          \* the returned value, once wpc = "done"
    \* ---- get_station_detail, one call per request (Spec, SpecConc) ----
    active,          \* the requests being handled
    json_exc,        \* the class r.json() raises in the requests installed
    route,           \* per request: "stations" | "station_detail"
    upstream,        \* per request: what the upstream did on the last attempt
    pc,              \* per request: position in the handler
    retries_left,    \* per request: the Retry budget of the fetch in progress
    fetched,         \* per request: what session.get / raise_for_status / r.json gave
    data,            \* per frame: local data
    metrics_container, \* per frame: local metrics_container
    weighted_map,    \* per frame: local weighted_map
    response,        \* per request: what the client receives
    pool             \* the shared session: connections kept alive in its pool

walkVars == <<days, idx, weighted_sum, total_samples, considered, wpc, result>>
reqVars == <<active, json_exc, route, upstream, pc, retries_left, fetched, data, metrics_container,
             weighted_map, response, pool>>
vars == <<days, idx, weighted_sum, total_samples, considered, wpc, result,
          active, json_exc, route, upstream, pc, retries_left, fetched, data, metrics_container,
          weighted_map, response, pool>>

----------------------------------------------------------------------------
(* JSON values and the Python operations the code applies to them *)

Null == [t |-> "null"]
Num(n) == [t |-> "num", v |-> n]
Str(s) == [t |-> "str", v |-> s]
List(s) == [t |-> "list", v |-> s]
Obj(f) == [t |-> "obj", v |-> f]
Flt(m) == [t |-> "float", v |-> m]

\* A number with seven decimals, k * 10^-7: what a JSON number written with
\* more decimals than round(_, 6) keeps reads as, and the float the walk
\* computes with.
Dec7(k) == [t |-> "dec7", v |-> k]
FloatUnit == 10000000

EmptyDict == [k \in {} |-> Null]

\* Python truthiness, as used by `not x` and `x or y`.
Truthy(x) ==
    CASE x.t = "null" -> FALSE
      [] x.t = "num" -> x.v # 0
      [] x.t = "float" -> x.v # 0
      [] x.t = "dec7" -> x.v # 0
      [] x.t = "str" -> x.v # ""
      [] x.t = "list" -> Len(x.v) > 0
      [] x.t = "obj" -> DOMAIN x.v # {}

\* x or y
PyOr(x, y) == IF Truthy(x) THEN x ELSE y

\* isinstance(x, dict), isinstance(x, list)
IsDict(x) == x.t = "obj"
IsList(x) == x.t = "list"

\* d.get(k, default) on a dict d (the caller has checked or not that d is one).
DictGet(d, k, default) == IF k \in DOMAIN d.v THEN d.v[k] ELSE default

\* The numeric strings of the inputs modelled: what float() and int() parse.
NumericStrings == {"2"}
ParseNumber(s) == CASE s = "2" -> 2

----------------------------------------------------------------------------
(* compute_weighted_average *)

\* The cap of the walk: `if considered >= 7: break`.
MaxConsidered == 7

\* _safe_float(val): None for None, float(val) when it converts, None when
\* float() raises ValueError (a string that is no number) or TypeError (a
\* list, a dict).
_safe_float(val) ==
    CASE val.t = "null" -> Null
      [] val.t = "num" -> Dec7(val.v * FloatUnit)
      [] val.t = "dec7" -> val
      [] val.t = "str" -> IF val.v \in NumericStrings
                          THEN Dec7(ParseNumber(val.v) * FloatUnit) ELSE Null
      [] OTHER -> Null

\* int(x) as the loop applies it to a truthy sample_size: the integer, or the
\* exception int() raises.
IntRaises(x) ==
    CASE x.t = "num" -> ""
      [] x.t = "str" -> IF x.v \in NumericStrings THEN "" ELSE "ValueError"
      [] OTHER -> "TypeError"

IntOf(x) ==
    CASE x.t = "num" -> x.v
      [] x.t = "str" -> ParseNumber(x.v)

\* round(n / d, 6) in millionths, for the float n (in units of 10^-7) and the
\* integer d # 0: Python rounds to the nearest, a tie to the even neighbour.
Round6(n, d) ==
    LET sn == IF d < 0 THEN -n ELSE n
        sd == (IF d < 0 THEN -d ELSE d) * (FloatUnit \div 1000000)
        num == 2 * sn + sd
        q == num \div (2 * sd)
    IN  IF num % (2 * sd) = 0 /\ q % 2 # 0 THEN q - 1 ELSE q

\* The locals of the walk before the loop.
WalkInit == [weighted_sum |-> 0, total_samples |-> 0, considered |-> 0, raised |-> ""]

\* A slip in the default: a day without sample_size counted as one sample.
SampleSizeOfDefaultOne(day) == PyOr(DictGet(day, "sample_size", Num(1)), Num(0))

\* `sample_size = day.get("sample_size", 0) or 0`
SampleSizeOf(day) == PyOr(DictGet(day, "sample_size", Num(0)), Num(0))

\* `avg = _safe_float(day.get("average"))`
AvgOf(day) == _safe_float(DictGet(day, "average", Null))

\* `if not sample_size or avg is None: continue`
SkipDay(day) == ~Truthy(SampleSizeOf(day)) \/ AvgOf(day) = Null

\* One iteration of the loop body on `day`, past the cap test: the locals after
\* it, or the exception that leaves the function (day.get on a day that is no
\* dict, int() on a sample_size that does not convert).
\* A slip: the average is added without its weight.
WalkDayUnweighted(st, day) ==
    IF ~IsDict(day) THEN [st EXCEPT !.raised = "AttributeError"]
    ELSE IF SkipDay(day) THEN st
    ELSE IF IntRaises(SampleSizeOf(day)) # ""
         THEN [st EXCEPT !.raised = IntRaises(SampleSizeOf(day))]
    ELSE [st EXCEPT !.weighted_sum = @ + AvgOf(day).v,
                    !.total_samples = @ + IntOf(SampleSizeOf(day)),
                    !.considered = @ + 1]

WalkDay(st, day) ==
    IF ~IsDict(day) THEN [st EXCEPT !.raised = "AttributeError"]
    ELSE IF SkipDay(day) THEN st
    ELSE IF IntRaises(SampleSizeOf(day)) # ""
         THEN [st EXCEPT !.raised = IntRaises(SampleSizeOf(day))]
    ELSE [st EXCEPT !.weighted_sum = @ + AvgOf(day).v * IntOf(SampleSizeOf(day)),
                    !.total_samples = @ + IntOf(SampleSizeOf(day)),
                    !.considered = @ + 1]

\* A slip in the cap test: `if considered > 7`.
CapReachedLate(n) == n > MaxConsidered

\* `if considered >= 7: break`
CapReached(n) == n >= MaxConsidered

\* The for loop from element i on.
RECURSIVE WalkFrom(_, _, _)
WalkFrom(st, seq, i) ==
    IF i > Len(seq) \/ st.raised # "" \/ CapReached(st.considered) THEN st
    ELSE WalkFrom(WalkDay(st, seq[i]), seq, i + 1)

\* The final computation: None when total_samples == 0, else the rounded quotient.
FinalResult(ws, ts) == IF ts = 0 THEN Null ELSE Flt(Round6(ws, ts))

\* compute_weighted_average(days): [raised |-> the exception or "", value |-> the result].
compute_weighted_average(d) ==
    IF ~Truthy(d) THEN [raised |-> "", value |-> Null]
    ELSE LET st == WalkFrom(WalkInit, d.v, 1)
         IN  IF st.raised # "" THEN [raised |-> st.raised, value |-> Null]
             ELSE [raised |-> "", value |-> FinalResult(st.weighted_sum, st.total_samples)]

----------------------------------------------------------------------------
(* The series SpecAgg passes to compute_weighted_average *)

Day(avg, size) == Obj([average |-> avg, sample_size |-> size])

DayA == Day(Num(1), Num(1))                      \* consumed, weight 1
DayB == Day(Num(2), Num(2))                      \* consumed, weight 2
DayZero == Day(Num(2), Num(0))                   \* sample_size 0
DayNoSize == Obj([average |-> Num(2)])           \* sample_size missing
DayNullAvg == Day(Null, Num(2))                  \* average null
DayStrAvg == Day(Str("x"), Num(2))               \* average not a number
DayNoAvg == Obj([sample_size |-> Str("x")])      \* average missing
DayNumStr == Day(Str("2"), Str("2"))             \* numbers sent as strings
DayNeg == Day(Num(2), Num(-1))                   \* negative sample_size
DayBadSize == Day(Num(1), Str("x"))              \* int(sample_size) raises
DayNonObj == Num(5)                              \* a day that is no object
DayFine == Day(Dec7(17), Num(1))                 \* average 0.0000017

DaySet == {DayA, DayB, DayZero, DayNoSize, DayNullAvg, DayStrAvg, DayNoAvg,
           DayNumStr, DayNeg, DayBadSize, DayNonObj}

\* The last day of a series: any of the days above, or the fine average.
TailSet == DaySet \cup {DayFine}

\* Bounds of the series: any days at the head, a run of DayA, one last day.
MaxHead == 2
MaxPad == 7

SeqsUpTo(S, n) == UNION {[1..k -> S] : k \in 0..n}
Pad(k) == [i \in 1..k |-> DayA]

SeriesSet ==
    {h \o Pad(k) \o t : h \in SeqsUpTo(DaySet, MaxHead), k \in 0..MaxPad,
                         t \in SeqsUpTo(TailSet, 1)}

\* The arguments: a list, or None.
AggInputs == {List(s) : s \in SeriesSet} \cup {Null}

----------------------------------------------------------------------------
(* The requests of get_station_detail: identities and idle values *)

NumReqs == 2
Reqs == 1..NumReqs

NoEvent == [kind |-> "none", status |-> 0, body |-> [json |-> FALSE, value |-> Null]]
NoFetch == [kind |-> "none", exc |-> "", resp |-> [status |-> 0, body |-> [json |-> FALSE, value |-> Null]]]
NoResponse == [kind |-> "none"]

ReqIdle ==
    /\ active = {}
    /\ json_exc = "ValueError"
    /\ route = [r \in Reqs |-> "station_detail"]
    /\ upstream = [r \in Reqs |-> NoEvent]
    /\ pc = [r \in Reqs |-> "idle"]
    /\ retries_left = [r \in Reqs |-> 0]
    /\ fetched = [r \in Reqs |-> NoFetch]
    /\ data = [r \in Reqs |-> Null]
    /\ metrics_container = [r \in Reqs |-> EmptyDict]
    /\ weighted_map = [r \in Reqs |-> EmptyDict]
    /\ response = [r \in Reqs |-> NoResponse]
    /\ pool = 0

WalkOff ==
    /\ days = Null
    /\ idx = 0
    /\ weighted_sum = 0
    /\ total_samples = 0
    /\ considered = 0
    /\ wpc = "off"
    /\ result = Null

----------------------------------------------------------------------------
(* SpecAgg: one call of compute_weighted_average, statement by statement *)

InitAgg ==
    /\ days \in AggInputs
    /\ idx = 0
    /\ weighted_sum = 0
    /\ total_samples = 0
    /\ considered = 0
    /\ wpc = "start"
    /\ result = Null
    /\ ReqIdle

\* `if not days: return None`
WalkEmpty ==
    /\ wpc = "start"
    /\ ~Truthy(days)
    /\ wpc' = "done"
    /\ result' = Null
    /\ UNCHANGED <<days, idx, weighted_sum, total_samples, considered>>
    /\ UNCHANGED reqVars

\* The initialisation of the locals and the entry of the for loop.
WalkEnter ==
    /\ wpc = "start"
    /\ Truthy(days)
    /\ wpc' = "loop"
    /\ idx' = 1
    /\ weighted_sum' = WalkInit.weighted_sum
    /\ total_samples' = WalkInit.total_samples
    /\ considered' = WalkInit.considered
    /\ UNCHANGED <<days, result>>
    /\ UNCHANGED reqVars

\* The loop ends: the series is exhausted, or `if considered >= 7: break`.
WalkLeave ==
    /\ wpc = "loop"
    /\ idx > Len(days.v) \/ CapReached(considered)
    /\ wpc' = "final"
    /\ UNCHANGED <<days, idx, weighted_sum, total_samples, considered, result>>
    /\ UNCHANGED reqVars

\* One iteration of the loop body.
WalkStep ==
    /\ wpc = "loop"
    /\ idx <= Len(days.v)
    /\ ~CapReached(considered)
    /\ LET st == WalkDay([weighted_sum |-> weighted_sum, total_samples |-> total_samples,
                          considered |-> considered, raised |-> ""], days.v[idx])
       IN  /\ weighted_sum' = st.weighted_sum
           /\ total_samples' = st.total_samples
           /\ considered' = st.considered
           /\ wpc' = IF st.raised # "" THEN "raised" ELSE "loop"
           /\ idx' = IF st.raised # "" THEN idx ELSE idx + 1
    /\ UNCHANGED <<days, result>>
    /\ UNCHANGED reqVars

\* `if total_samples == 0: return None` / `return round(result, 6)`
WalkReturn ==
    /\ wpc = "final"
    /\ wpc' = "done"
    /\ result' = FinalResult(weighted_sum, total_samples)
    /\ UNCHANGED <<days, idx, weighted_sum, total_samples, considered>>
    /\ UNCHANGED reqVars

NextAgg == WalkEmpty \/ WalkEnter \/ WalkLeave \/ WalkStep \/ WalkReturn

SpecAgg == InitAgg /\ [][NextAgg]_vars

----------------------------------------------------------------------------
(* The weighted average as the specification states it *)

\* A JSON value that is a number, or a string that reads as one.
IsNumeric(x) == x.t \in {"num", "dec7"} \/ (x.t = "str" /\ x.v \in NumericStrings)
NumericValue(x) == IF x.t = "num" THEN x.v ELSE ParseNumber(x.v)

\* The value of a numeric average, in units of 10^-7.
AverageValue(x) == IF x.t = "dec7" THEN x.v ELSE NumericValue(x) * FloatUnit

\* A valid day: an object with a positive sample size and a numeric average.
ValidDay(day) ==
    /\ IsDict(day)
    /\ "sample_size" \in DOMAIN day.v
    /\ IsNumeric(day.v["sample_size"])
    /\ NumericValue(day.v["sample_size"]) > 0
    /\ "average" \in DOMAIN day.v
    /\ IsNumeric(day.v["average"])

\* A day the specification skips: an object whose sample size is 0, null or
\* missing, or whose average is missing, null or no number.
InvalidDay(day) ==
    /\ IsDict(day)
    /\ \/ "sample_size" \notin DOMAIN day.v
       \/ day.v["sample_size"] \in {Num(0), Null}
       \/ "average" \notin DOMAIN day.v
       \/ ~IsNumeric(day.v["average"])

ValidCount(seq, k) == Cardinality({i \in 1..k : ValidDay(seq[i])})

\* The series up to and including its 7th valid day (all of it when it has fewer).
UpTo7thValid(seq) ==
    LET ks == {k \in 0..Len(seq) : ValidCount(seq, k) >= 7}
    IN  IF ks = {} THEN seq
        ELSE SubSeq(seq, 1, CHOOSE k \in ks : \A j \in ks : k <= j)

\* The first (at most 7) valid days, in input order.
First7Valid(seq) == SelectSeq(UpTo7thValid(seq), ValidDay)

RECURSIVE SumOver(_, _, _)
SumOver(seq, i, withAverage) ==
    IF i > Len(seq) THEN 0
    ELSE NumericValue(seq[i].v["sample_size"])
            * (IF withAverage THEN AverageValue(seq[i].v["average"]) ELSE 1)
         + SumOver(seq, i + 1, withAverage)

\* sum(average * sample_size) / sum(sample_size) over those days, to 6 decimals.
StatedAverage(seq) ==
    Flt(Round6(SumOver(First7Valid(seq), 1, TRUE), SumOver(First7Valid(seq), 1, FALSE)))

----------------------------------------------------------------------------
(* Claims on compute_weighted_average, checked under SpecAgg *)

\* C1: whenever the series has at least one valid day (positive sample size,
\* numeric average), the value returned is sum(average * sample_size) /
\* sum(sample_size) over its first (at most 7) valid days, to 6 decimals; no
\* other day contributes.
C1_WeightedAverageOfValidDays ==
    (wpc = "done" /\ IsList(days) /\ \E i \in 1..Len(days.v) : ValidDay(days.v[i]))
        => result = StatedAverage(days.v)

\* C2: the outcome of the call is the outcome on the series cut after its 7th
\* valid day, so nothing after that day changes it; and in a series of valid
\* and skipped days only, the skipped ones do not count toward the cap: the
\* days consumed are the valid ones, up to 7.
C2_CapEnforced ==
    (wpc \in {"done", "raised"} /\ IsList(days)) =>
        LET cut == compute_weighted_average(List(UpTo7thValid(days.v)))
        IN  /\ (wpc = "raised") = (cut.raised # "")
            /\ wpc = "done" => result = cut.value
            /\ (wpc = "done" /\ \A i \in 1..Len(days.v) :
                                   ValidDay(days.v[i]) \/ InvalidDay(days.v[i]))
                   => considered = (IF ValidCount(days.v, Len(days.v)) < 7
                                    THEN ValidCount(days.v, Len(days.v)) ELSE 7)

\* A series with 8 or more valid days and a skipped day before the 7th of them,
\* walked to its end: the 8th valid day changes the quotient if it is consumed.
C2_Witness ==
    /\ wpc = "done"
    /\ IsList(days)
    /\ ValidCount(days.v, Len(days.v)) >= 8
    /\ \E i \in 1..Len(UpTo7thValid(days.v)) : InvalidDay(days.v[i])
    /\ ValidDay(days.v[Len(days.v)])
    /\ days.v[Len(days.v)] = DayB
    /\ considered = 7
    /\ result # Null

\* C3: a series that is None or empty, or whose days all have a sample size
\* of 0 (or null, or none) or an average that is missing, null or no number,
\* yields None and the call does not raise.
C3_NoValidDayGivesNone ==
    (~Truthy(days) \/ \A i \in 1..Len(days.v) : InvalidDay(days.v[i]))
        => /\ wpc # "raised"
           /\ wpc = "done" => result = Null

\* A walk that returned on a series of two or more days, none valid, one of
\* them with an average that is no number and one with no sample size.
C3_Witness ==
    /\ wpc = "done"
    /\ Truthy(days)
    /\ Len(days.v) >= 2
    /\ \A i \in 1..Len(days.v) : InvalidDay(days.v[i])
    /\ \E i \in 1..Len(days.v) : days.v[i] = DayStrAvg
    /\ \E i \in 1..Len(days.v) : days.v[i] = DayNoSize
    /\ result = Null

----------------------------------------------------------------------------
(* The shared session: requests.Session with HTTPAdapter(max_retries=Retry(...)) *)

\* Retry(total=2): the retries after the first attempt.
RetryTotal == 2

\* Retry(status_forcelist=[429, 502, 503, 504])
StatusForcelist == {429, 502, 503, 504}

\* The exceptions of the try block, each with the classes an except clause
\* matches it by.
\*  - ConnectTimeout: every attempt timed out while connecting.
\*  - ConnectionError: the last attempt was refused or reset, or timed out
\*    while reading (the adapter wraps urllib3's MaxRetryError, whose reason
\*    is then a ReadTimeoutError, in ConnectionError).
\*  - RetryError: the last attempt was answered with a status of the
\*    forcelist and the Retry budget is used up (raise_on_status is left at
\*    its default, True).
\*  - HTTPError: r.raise_for_status() on a 4xx or 5xx response.
\*  - JSONDecodeError: r.json() on a body that is no JSON; a RequestException
\*    and a ValueError in requests >= 2.27, a ValueError only before.
ExcClasses(name) ==
    CASE name = "ConnectTimeout" -> {"ConnectTimeout", "Timeout", "ConnectionError", "RequestException"}
      [] name = "ConnectionError" -> {"ConnectionError", "RequestException"}
      [] name = "RetryError" -> {"RetryError", "RequestException"}
      [] name = "HTTPError" -> {"HTTPError", "RequestException"}
      [] name = "JSONDecodeError" -> {"JSONDecodeError", "RequestException", "ValueError"}
      [] name = "ValueError" -> {"ValueError"}

\* What one attempt ends with when it gets no usable response, once the Retry
\* budget is used up: the exception session.get raises.
ExhaustedException(event) ==
    CASE event.kind = "connect_timeout" -> "ConnectTimeout"
      [] event.kind = "read_timeout" -> "ConnectionError"
      [] event.kind = "conn_error" -> "ConnectionError"
      [] event.kind = "status" -> "RetryError"

\* Whether Retry takes another attempt after this event (budget permitting).
Retryable(event) ==
    event.kind # "status" \/ event.status \in StatusForcelist

NoResp == [status |-> 0, body |-> [json |-> FALSE, value |-> Null]]
Raised(name, resp) == [kind |-> "exception", exc |-> name, resp |-> resp]
Returned(resp) == [kind |-> "response", exc |-> "", resp |-> resp]

----------------------------------------------------------------------------
(* get_station_detail: the except chain *)

\* The except clauses in source order: get_station_detail has all four,
\* get_stations the first three.
Handlers == <<"Timeout", "HTTPError", "RequestException", "ValueError">>
HandlerCount(rt) == IF rt = "stations" THEN 3 ELSE 4

\* The first clause that matches the exception (0: none, it propagates).
HandlerOf(rt, name) ==
    LET hits == {i \in 1..HandlerCount(rt) : Handlers[i] \in ExcClasses(name)}
    IN  IF hits = {} THEN 0 ELSE CHOOSE i \in hits : \A j \in hits : i <= j

ErrorBody(message, detail) == Obj([message |-> Str(message), detail |-> detail])

\* `detail = e.response.json()`, else `e.response.text or str(e)`
HTTPErrorDetail(resp) == IF resp.body.json THEN resp.body.value ELSE Str("e.response.text")

\* The (body, status) each except clause returns.
ErrorResponse(rt, f) ==
    LET h == Handlers[HandlerOf(rt, f.exc)]
    IN  CASE h = "Timeout" ->
               [kind |-> "error", status |-> 504,
                body |-> ErrorBody("Upstream timeout", Str("Timeout contacting upstream service"))]
          [] h = "HTTPError" ->
               [kind |-> "error",
                status |-> IF f.resp = NoResp THEN 502 ELSE f.resp.status,
                body |-> ErrorBody("Upstream returned error", HTTPErrorDetail(f.resp))]
          [] h = "RequestException" ->
               [kind |-> "error", status |-> 502,
                body |-> ErrorBody("Errore contattando il servizio upstream", Str("str(e)"))]
          [] h = "ValueError" ->
               [kind |-> "error", status |-> 502,
                body |-> ErrorBody("Invalid JSON from upstream", Str("str(e)"))]

\* An exception no clause of the handler catches: the framework answers for it.
Unhandled(name) == [kind |-> "unhandled", exc |-> name]

----------------------------------------------------------------------------
(* get_station_detail: the extraction of metrics_container *)

\* d[k] = v on a dict held as a function.
DictSet(f, k, val) == [x \in DOMAIN f \cup {k} |-> IF x = k THEN val ELSE f[x]]

\* `name = m.get("name") or m.get("metric") or "unknown"`
MetricNameOf(m) ==
    PyOr(PyOr(DictGet(m, "name", Null), DictGet(m, "metric", Null)), Str("unknown"))

\* `points = m.get("data_points") or m.get("days") or []`
MetricPointsOf(m) ==
    PyOr(PyOr(DictGet(m, "data_points", Null), DictGet(m, "days", Null)), List(<<>>))

\* A value usable as a dict key (a list or a dict is unhashable).
Hashable(x) == x.t \notin {"list", "obj"}

\* One iteration of `for m in data["metrics"]` on the container so far.
ExtractMetric(acc, m) ==
    IF ~IsDict(m) THEN [acc EXCEPT !.raised = "AttributeError"]
    ELSE IF ~IsList(MetricPointsOf(m)) THEN acc
    ELSE IF ~Hashable(MetricNameOf(m)) THEN [acc EXCEPT !.raised = "TypeError"]
    ELSE [acc EXCEPT !.mc = DictSet(acc.mc, MetricNameOf(m).v, MetricPointsOf(m))]

RECURSIVE ExtractMetrics(_, _, _)
ExtractMetrics(acc, seq, i) ==
    IF i > Len(seq) \/ acc.raised # "" THEN acc
    ELSE ExtractMetrics(ExtractMetric(acc, seq[i]), seq, i + 1)

\* The test of the list form on one top-level value.
\* A slip: the list form recognises a first element by its average only.
ListFormAverageOnly(val) ==
    /\ IsList(val)
    /\ Truthy(val)
    /\ IsDict(val.v[1])
    /\ "average" \in DOMAIN val.v[1].v

ListForm(val) ==
    /\ IsList(val)
    /\ Truthy(val)
    /\ IsDict(val.v[1])
    /\ \/ "average" \in DOMAIN val.v[1].v
       \/ "sample_size" \in DOMAIN val.v[1].v
       \/ ("min" \in DOMAIN val.v[1].v /\ "max" \in DOMAIN val.v[1].v)

\* `nested = v.get("data_points") or v.get("days")`
NestedOf(val) == PyOr(DictGet(val, "data_points", Null), DictGet(val, "days", Null))

\* The test of the nested form on one top-level value.
NestedForm(val) == Truthy(val) /\ IsDict(val) /\ IsList(NestedOf(val))

\* `for k, v in data.items()`: the two tests on every top-level pair.
ExtractScan(d) ==
    [k \in {x \in DOMAIN d.v : ListForm(d.v[x]) \/ NestedForm(d.v[x])} |->
        IF NestedForm(d.v[k]) THEN NestedOf(d.v[k]) ELSE d.v[k]]

\* `"metrics" in data and isinstance(data["metrics"], list)`
HasMetricsList(d) == "metrics" \in DOMAIN d.v /\ IsList(d.v["metrics"])

\* The extraction step: [raised |-> the exception or "", mc |-> metrics_container].
Extract(d) ==
    IF ~IsDict(d) THEN [raised |-> "", mc |-> EmptyDict]
    ELSE IF HasMetricsList(d)
         THEN ExtractMetrics([raised |-> "", mc |-> EmptyDict], d.v["metrics"].v, 1)
    ELSE [raised |-> "", mc |-> ExtractScan(d)]

----------------------------------------------------------------------------
(* get_station_detail: the aggregation loop and the response *)

\* A narrower clause: `except ValueError`.
CaughtValueErrorOnly(name) == name = "ValueError"

\* `except Exception`: the clause around compute_weighted_average catches
\* every exception the call can raise.
Caught(name) == name \in {"AttributeError", "ValueError", "TypeError"}

\* A slip: the key is left out when no metric was found.
EnrichedBodyOmitEmpty(d, wm) ==
    IF wm = EmptyDict THEN (IF IsDict(d) THEN d ELSE Obj([data |-> d]))
    ELSE IF IsDict(d) THEN Obj(DictSet(d.v, "weighted_average_7d", Obj(wm)))
    ELSE Obj([data |-> d, weighted_average_7d |-> Obj(wm)])

\* A slip: the wrapper whatever data is.
EnrichedBodyAlwaysWrapped(d, wm) == Obj([data |-> d, weighted_average_7d |-> Obj(wm)])

\* A slip: the wrapper of a non-object loses the upstream value.
EnrichedBodyDropData(d, wm) ==
    IF IsDict(d) THEN Obj(DictSet(d.v, "weighted_average_7d", Obj(wm)))
    ELSE Obj([weighted_average_7d |-> Obj(wm)])

\* The enriched body: data with weighted_average_7d set, or the wrapper.
EnrichedBody(d, wm) ==
    IF IsDict(d) THEN Obj(DictSet(d.v, "weighted_average_7d", Obj(wm)))
    ELSE Obj([data |-> d, weighted_average_7d |-> Obj(wm)])

\* A slip: the locals kept in module-level globals, one cell for all calls.
FrameShared(r) == 1

\* The call frame that holds the locals of request r: one per call.
Frame(r) == r

----------------------------------------------------------------------------
(* What the upstream answers *)

SerA == List(<<DayA>>)
SerBA == List(<<DayB, DayA>>)
SerEmpty == List(<<>>)
SerNonObj == List(<<DayNonObj>>)
SerBadSize == List(<<DayBadSize>>)
SerMinMax == List(<<Obj([min |-> Num(1), max |-> Num(3)])>>)
SerMinOnly == List(<<Obj([min |-> Num(1)])>>)
SerSizeOnly == List(<<DayNoAvg>>)
SerMixed == List(<<DayA, DayNonObj>>)
SerLateObj == List(<<DayNonObj, DayA>>)

\* The elements of a metrics list.
MetricElems ==
    { Obj([name |-> Str("pm10"), data_points |-> SerBA]),
      Obj([metric |-> Str("no2"), days |-> SerA]),
      Obj([name |-> Str(""), metric |-> Str("pm10"), data_points |-> SerEmpty, days |-> SerA]),
      Obj(EmptyDict),
      Obj([name |-> Str("no2"), data_points |-> Num(3)]),
      Obj([name |-> Str("no2"), data_points |-> SerNonObj]),
      Obj([name |-> Str("pm10"), days |-> SerBadSize]),
      Obj([name |-> List(<<Str("pm10")>>), days |-> SerA]),
      Num(1) }

\* Bound: the length of a metrics list.
MaxMetrics == 2

\* The values of the top-level key "metrics" (Absent: no such key).
Absent == [t |-> "absent"]
MetricsValues ==
    {List(q) : q \in SeqsUpTo(MetricElems, MaxMetrics)}
        \cup {Absent, Null, Obj([days |-> SerA])}

\* The values of the top-level key "pm10".
Pm10Values ==
    { Absent, SerBA, SerBadSize, SerEmpty, SerNonObj, SerMinMax, SerMinOnly,
      SerSizeOnly, SerMixed, SerLateObj,
      Obj([data_points |-> SerBA]), Obj([days |-> SerEmpty]),
      Obj([data_points |-> SerEmpty]),
      Obj([data_points |-> Num(1), days |-> SerA]),
      Obj([data_points |-> Null, days |-> SerA]),
      Num(7) }

TopKeys == {"metrics", "pm10", "id", "weighted_average_7d"}

\* An object from a choice of value (or Absent) for every top-level key.
MakeObj(c) == Obj([k \in {x \in TopKeys : c[x] # Absent} |-> c[k]])

ObjectPayloads ==
    {MakeObj([metrics |-> m, pm10 |-> p, id |-> i, weighted_average_7d |-> w]) :
        m \in MetricsValues, p \in Pm10Values, i \in {Absent, Str("st1")},
        w \in {Absent, Str("upstream")}}

NonObjectPayloads == {Null, Num(1), SerA, Str("text")}

Payloads == ObjectPayloads \cup NonObjectPayloads

JsonBody(val) == [json |-> TRUE, value |-> val]
TextBody == [json |-> FALSE, value |-> Null]

SuccessStatuses == {200, 203}
ErrorStatuses == {404, 500, 429, 502, 503, 504}
ErrorBodies == {JsonBody(Obj([error |-> Str("upstream")])), TextBody}

StatusEvent(st, b) == [kind |-> "status", status |-> st, body |-> b]
FailureEvent(k) == [kind |-> k, status |-> 0, body |-> TextBody]

\* What one attempt can meet.
AllEvents ==
    {StatusEvent(st, JsonBody(b)) : st \in SuccessStatuses, b \in Payloads}
    \cup {StatusEvent(st, TextBody) : st \in SuccessStatuses}
    \cup {StatusEvent(st, b) : st \in ErrorStatuses, b \in ErrorBodies}
    \cup {FailureEvent(k) : k \in {"connect_timeout", "read_timeout", "conn_error"}}

\* The few of them used when several requests are interleaved.
FewEvents ==
    { StatusEvent(200, JsonBody(MakeObj(
          [metrics |-> List(<<Obj([name |-> Str("no2"), data_points |-> SerNonObj]),
                              Obj([name |-> Str("pm10"), data_points |-> SerBA])>>),
           pm10 |-> Absent, id |-> Absent, weighted_average_7d |-> Absent]))),
      StatusEvent(200, JsonBody(MakeObj(
          [metrics |-> Absent, pm10 |-> SerA, id |-> Str("st1"),
           weighted_average_7d |-> Absent]))),
      StatusEvent(203, JsonBody(Num(1))),
      StatusEvent(200, TextBody),
      StatusEvent(404, TextBody),
      StatusEvent(503, TextBody),
      FailureEvent("connect_timeout") }

\* By the number of requests in progress.
UpstreamEvents(n) == IF n > 1 THEN FewEvents ELSE AllEvents

----------------------------------------------------------------------------
(* get_station_detail, step by step, for request r *)

\* The route is called: the locals are fresh, the Retry budget is whole.
Start(r) ==
    /\ r \in active
    /\ pc[r] = "idle"
    /\ \E rt \in {"stations", "station_detail"} : route' = [route EXCEPT ![r] = rt]
    /\ pc' = [pc EXCEPT ![r] = "send"]
    /\ retries_left' = [retries_left EXCEPT ![r] = RetryTotal]
    /\ UNCHANGED <<active, json_exc, upstream, fetched, data, metrics_container, weighted_map, response, pool>>
    /\ UNCHANGED walkVars

\* session.get: an attempt takes a connection of the pool, or opens one.
Send(r) ==
    /\ pc[r] = "send"
    /\ pc' = [pc EXCEPT ![r] = "wait"]
    /\ pool' = IF pool > 0 THEN pool - 1 ELSE 0
    /\ UNCHANGED <<active, json_exc, route, upstream, retries_left, fetched, data,
                   metrics_container, weighted_map, response>>
    /\ UNCHANGED walkVars

\* The attempt ends and Retry takes another one.
Retry(r) ==
    /\ pc[r] = "wait"
    /\ retries_left[r] > 0
    /\ \E event \in UpstreamEvents(Cardinality(active)) :
          /\ Retryable(event)
          /\ pool' = IF event.kind = "status" THEN pool + 1 ELSE pool
    /\ retries_left' = [retries_left EXCEPT ![r] = @ - 1]
    /\ pc' = [pc EXCEPT ![r] = "send"]
    /\ UNCHANGED <<active, json_exc, route, upstream, fetched, data,
                   metrics_container, weighted_map, response>>
    /\ UNCHANGED walkVars

\* The attempt ends and session.get returns the response, or raises because
\* the Retry budget is used up.
Receive(r) ==
    /\ pc[r] = "wait"
    /\ \E event \in UpstreamEvents(Cardinality(active)) :
          /\ Retryable(event) => retries_left[r] = 0
          /\ pool' = IF event.kind = "status" THEN pool + 1 ELSE pool
          /\ fetched' = [fetched EXCEPT ![r] =
                IF Retryable(event)
                THEN Raised(ExhaustedException(event), NoResp)
                ELSE Returned([status |-> event.status, body |-> event.body])]
          /\ pc' = [pc EXCEPT ![r] = IF Retryable(event) THEN "except" ELSE "parse"]
          /\ upstream' = [upstream EXCEPT ![r] = event]
    /\ retries_left' = [retries_left EXCEPT ![r] = 0]
    /\ UNCHANGED <<active, json_exc, route, data, metrics_container, weighted_map,
                   response>>
    /\ UNCHANGED walkVars

\* `r.raise_for_status()`, then `data = r.json()` in get_station_detail, the
\* return of the upstream body as it is in get_stations.
Parse(r) ==
    /\ pc[r] = "parse"
    /\ LET resp == fetched[r].resp
       IN  IF resp.status >= 400
           THEN /\ fetched' = [fetched EXCEPT ![r] = Raised("HTTPError", resp)]
                /\ pc' = [pc EXCEPT ![r] = "except"]
                /\ UNCHANGED <<data, response>>
           ELSE IF route[r] = "stations"
           THEN /\ response' = [response EXCEPT ![r] =
                      [kind |-> "proxied", status |-> resp.status, body |-> resp.body]]
                /\ pc' = [pc EXCEPT ![r] = "done"]
                /\ UNCHANGED <<data, fetched>>
           ELSE IF ~resp.body.json
           THEN /\ fetched' = [fetched EXCEPT ![r] = Raised(json_exc, resp)]
                /\ pc' = [pc EXCEPT ![r] = "except"]
                /\ UNCHANGED <<data, response>>
           ELSE /\ data' = [data EXCEPT ![Frame(r)] = resp.body.value]
                /\ pc' = [pc EXCEPT ![r] = "extract"]
                /\ UNCHANGED <<fetched, response>>
    /\ UNCHANGED <<active, json_exc, route, upstream, retries_left, metrics_container,
                   weighted_map, pool>>
    /\ UNCHANGED walkVars

\* The except clause that matches returns the error body.
Except(r) ==
    /\ pc[r] = "except"
    /\ response' = [response EXCEPT ![r] =
          IF HandlerOf(route[r], fetched[r].exc) = 0 THEN Unhandled(fetched[r].exc)
          ELSE ErrorResponse(route[r], fetched[r])]
    /\ pc' = [pc EXCEPT ![r] = "done"]
    /\ UNCHANGED <<active, json_exc, route, upstream, retries_left, fetched, data,
                   metrics_container, weighted_map, pool>>
    /\ UNCHANGED walkVars

\* metrics_container = {} and the extraction; weighted_map = {}.
ExtractStep(r) ==
    /\ pc[r] = "extract"
    /\ LET e == Extract(data[Frame(r)])
       IN  IF e.raised # ""
           THEN /\ response' = [response EXCEPT ![r] = Unhandled(e.raised)]
                /\ pc' = [pc EXCEPT ![r] = "done"]
                /\ UNCHANGED <<metrics_container, weighted_map>>
           ELSE /\ metrics_container' = [metrics_container EXCEPT ![Frame(r)] = e.mc]
                /\ weighted_map' = [weighted_map EXCEPT ![Frame(r)] = EmptyDict]
                /\ pc' = [pc EXCEPT ![r] = "aggregate"]
                /\ UNCHANGED response
    /\ UNCHANGED <<active, json_exc, route, upstream, retries_left, fetched, data, pool>>
    /\ UNCHANGED walkVars

\* One iteration of `for metric_name, days in metrics_container.items()`.
Aggregate(r) ==
    /\ pc[r] = "aggregate"
    /\ \E metric_name \in DOMAIN metrics_container[Frame(r)] \ DOMAIN weighted_map[Frame(r)] :
          LET wa == compute_weighted_average(metrics_container[Frame(r)][metric_name])
          IN  IF wa.raised # "" /\ ~Caught(wa.raised)
              THEN /\ response' = [response EXCEPT ![r] = Unhandled(wa.raised)]
                   /\ pc' = [pc EXCEPT ![r] = "done"]
                   /\ UNCHANGED weighted_map
              ELSE /\ weighted_map' = [weighted_map EXCEPT ![Frame(r)] =
                          DictSet(@, metric_name,
                                  IF wa.raised # "" THEN Null ELSE wa.value)]
                   /\ UNCHANGED <<response, pc>>
    /\ UNCHANGED <<active, json_exc, route, upstream, retries_left, fetched, data,
                   metrics_container, pool>>
    /\ UNCHANGED walkVars

\* The loop is over: data["weighted_average_7d"] = weighted_map (or the
\* wrapper) and the return with r.status_code.
Respond(r) ==
    /\ pc[r] = "aggregate"
    /\ DOMAIN metrics_container[Frame(r)] = DOMAIN weighted_map[Frame(r)]
    /\ response' = [response EXCEPT ![r] =
          [kind |-> "enriched", status |-> fetched[r].resp.status,
           body |-> EnrichedBody(data[Frame(r)], weighted_map[Frame(r)])]]
    /\ data' = [data EXCEPT ![Frame(r)] =
          IF IsDict(@) THEN EnrichedBody(@, weighted_map[Frame(r)]) ELSE @]
    /\ pc' = [pc EXCEPT ![r] = "done"]
    /\ UNCHANGED <<active, json_exc, route, upstream, retries_left, fetched,
                   metrics_container, weighted_map, pool>>
    /\ UNCHANGED walkVars

\* The state of the process before any request, for the requests `who`.
InitFor(who) ==
    /\ active = who
    /\ json_exc \in {"JSONDecodeError", "ValueError"}
    /\ route = [r \in Reqs |-> "station_detail"]
    /\ upstream = [r \in Reqs |-> NoEvent]
    /\ pc = [r \in Reqs |-> "idle"]
    /\ retries_left = [r \in Reqs |-> 0]
    /\ fetched = [r \in Reqs |-> NoFetch]
    /\ data = [r \in Reqs |-> Null]
    /\ metrics_container = [r \in Reqs |-> EmptyDict]
    /\ weighted_map = [r \in Reqs |-> EmptyDict]
    /\ response = [r \in Reqs |-> NoResponse]
    /\ pool = 0
    /\ WalkOff

\* One request.
Init == InitFor({1})

\* Requests handled concurrently.
InitConc == InitFor(Reqs)

Next ==
    \E r \in Reqs :
        \/ Start(r)
        \/ Send(r)
        \/ Retry(r)
        \/ Receive(r)
        \/ Parse(r)
        \/ Except(r)
        \/ ExtractStep(r)
        \/ Aggregate(r)
        \/ Respond(r)

Spec == Init /\ [][Next]_vars

SpecConc == InitConc /\ [][Next]_vars

----------------------------------------------------------------------------
(* Claims on get_station_detail and get_stations, checked under Spec *)

Done(r) == pc[r] = "done"
Detail(r) == route[r] = "station_detail"

\* The last attempt was answered 2xx with a JSON body: the fetch succeeded.
FetchSucceeded(r) ==
    upstream[r].kind = "status" /\ upstream[r].status < 400 /\ upstream[r].body.json

\* The JSON value the upstream sent.
UpstreamValue(r) == upstream[r].body.value

\* C4: every response get_station_detail returns after a successful fetch
\* has the key weighted_average_7d, a mapping whose keys are exactly the
\* names the extraction put in metrics_container; with no metric extracted it
\* is the empty mapping, not left out.
C4_AverageKeysAreMetricNames ==
    \A r \in Reqs :
        (Done(r) /\ Detail(r) /\ FetchSucceeded(r) /\ response[r].kind # "unhandled") =>
            /\ response[r].kind = "enriched"
            /\ "weighted_average_7d" \in DOMAIN response[r].body.v
            /\ IsDict(response[r].body.v["weighted_average_7d"])
            /\ DOMAIN response[r].body.v["weighted_average_7d"].v
                  = DOMAIN metrics_container[Frame(r)]
            /\ metrics_container[Frame(r)] = Extract(UpstreamValue(r)).mc

\* An enriched response to an upstream object in which no metric was found.
C4_Witness ==
    \E r \in Reqs :
        /\ Done(r) /\ Detail(r) /\ FetchSucceeded(r)
        /\ IsDict(UpstreamValue(r))
        /\ "id" \in DOMAIN UpstreamValue(r).v
        /\ metrics_container[Frame(r)] = EmptyDict
        /\ response[r].kind = "enriched"
        /\ response[r].body.v["weighted_average_7d"] = Obj(EmptyDict)

\* C5 as stated: the body has every key of the upstream object with its
\* upstream value, plus weighted_average_7d; no upstream key is overwritten.
C5_NoUpstreamKeyOverwritten ==
    \A r \in Reqs :
        (Done(r) /\ response[r].kind = "enriched" /\ IsDict(UpstreamValue(r))) =>
            /\ "weighted_average_7d" \in DOMAIN response[r].body.v
            /\ \A k \in DOMAIN UpstreamValue(r).v :
                  /\ k \in DOMAIN response[r].body.v
                  /\ response[r].body.v[k] = UpstreamValue(r).v[k]

\* C5 amended: the body has exactly the keys of the upstream object and
\* weighted_average_7d; every upstream key other than weighted_average_7d
\* keeps its upstream value, and weighted_average_7d holds the computed
\* mapping (which replaces an upstream value of that name).
C5_OtherKeysUnchanged ==
    \A r \in Reqs :
        (Done(r) /\ response[r].kind = "enriched" /\ IsDict(UpstreamValue(r))) =>
            /\ DOMAIN response[r].body.v
                  = DOMAIN UpstreamValue(r).v \cup {"weighted_average_7d"}
            /\ response[r].body.v["weighted_average_7d"] = Obj(weighted_map[Frame(r)])
            /\ \A k \in DOMAIN UpstreamValue(r).v \ {"weighted_average_7d"} :
                  response[r].body.v[k] = UpstreamValue(r).v[k]

\* An enriched response to an upstream object that has the keys id, pm10 and
\* weighted_average_7d.
C5_Witness ==
    \E r \in Reqs :
        /\ Done(r) /\ response[r].kind = "enriched"
        /\ IsDict(UpstreamValue(r))
        /\ {"id", "pm10", "weighted_average_7d"} \subseteq DOMAIN UpstreamValue(r).v
        /\ response[r].body.v["id"] = Str("st1")
        /\ response[r].body.v["weighted_average_7d"] # Str("upstream")

\* C6: the extraction never raises, whatever JSON value the upstream sent:
\* a request whose fetch succeeded does not end in an exception that leaves
\* get_station_detail.
C6_ExtractionNeverRaises ==
    \A r \in Reqs :
        /\ pc[r] = "extract" => Extract(data[Frame(r)]).raised = ""
        /\ (Done(r) /\ Detail(r) /\ FetchSucceeded(r)) => response[r].kind # "unhandled"

\* The value compute_weighted_average gives for a series, None when it raises.
ValueOrNone(series) ==
    LET wa == compute_weighted_average(series)
    IN  IF wa.raised # "" THEN Null ELSE wa.value

\* C7: a failure while aggregating one metric's series sets that metric's
\* entry to null; every entry of weighted_map, from the iteration that sets
\* it to the response, is the value of its own series (null when the call
\* raised); and the request whose extraction went through ends with the
\* enriched response.
C7_AggregationFailureIsolated ==
    \A r \in Reqs :
        /\ pc[r] \in {"aggregate", "done"} =>
              \A name \in DOMAIN weighted_map[Frame(r)] :
                  /\ name \in DOMAIN metrics_container[Frame(r)]
                  /\ weighted_map[Frame(r)][name]
                        = ValueOrNone(metrics_container[Frame(r)][name])
        /\ (Done(r) /\ Detail(r) /\ FetchSucceeded(r)
                /\ Extract(UpstreamValue(r)).raised = "") =>
              /\ response[r].kind = "enriched"
              /\ response[r].body.v["weighted_average_7d"] = Obj(weighted_map[Frame(r)])
              /\ DOMAIN weighted_map[Frame(r)] = DOMAIN metrics_container[Frame(r)]

\* An enriched response in which one metric's series made the call raise (a
\* day that is no object) and is null, beside a metric with its average.
C7_Witness ==
    \E r \in Reqs :
        /\ Done(r) /\ response[r].kind = "enriched"
        /\ \E bad, good \in DOMAIN metrics_container[Frame(r)] :
              /\ compute_weighted_average(metrics_container[Frame(r)][bad]).raised
                    = "AttributeError"
              /\ weighted_map[Frame(r)][bad] = Null
              /\ weighted_map[Frame(r)][good] = Flt(1666667)

\* C8: when the upstream's answer to the (last) attempt is a 4xx or 5xx, the
\* proxy answers with an error body {message, detail} whose status is the
\* upstream's, the statuses 429, 502, 503 and 504 after the retries included.
C8_UpstreamStatusSurfaced ==
    \A r \in Reqs :
        (Done(r) /\ upstream[r].kind = "status" /\ upstream[r].status >= 400) =>
            /\ response[r].kind = "error"
            /\ DOMAIN response[r].body.v = {"message", "detail"}
            /\ response[r].status = upstream[r].status

\* C9: every failed fetch of get_station_detail ends with an error body
\* {message, detail} and neither extraction nor aggregation: a timeout gives
\* 504, a connection failure 502, a 2xx whose body is no JSON 502.
C9_FetchFailureStatuses ==
    \A r \in Reqs :
        (Done(r) /\ Detail(r) /\ ~FetchSucceeded(r)) =>
            /\ response[r].kind = "error"
            /\ DOMAIN response[r].body.v = {"message", "detail"}
            /\ metrics_container[Frame(r)] = EmptyDict
            /\ weighted_map[Frame(r)] = EmptyDict
            /\ upstream[r].kind \in {"connect_timeout", "read_timeout"}
                  => response[r].status = 504
            /\ upstream[r].kind = "conn_error" => response[r].status = 502
            /\ (upstream[r].kind = "status" /\ upstream[r].status < 400)
                  => response[r].status = 502

----------------------------------------------------------------------------
(* Claim on concurrent requests, checked under SpecConc *)

\* What the handler of route rt answers to the upstream's last event, as a
\* function of that event alone.
AnswerTo(rt, event, jsonExc) ==
    IF Retryable(event)
    THEN ErrorResponse(rt, Raised(ExhaustedException(event), NoResp))
    ELSE IF event.status >= 400
    THEN ErrorResponse(rt, Raised("HTTPError", [status |-> event.status, body |-> event.body]))
    ELSE IF rt = "stations"
    THEN [kind |-> "proxied", status |-> event.status, body |-> event.body]
    ELSE IF ~event.body.json
    THEN ErrorResponse(rt, Raised(jsonExc, [status |-> event.status, body |-> event.body]))
    ELSE LET e == Extract(event.body.value)
         IN  IF e.raised # "" THEN Unhandled(e.raised)
             ELSE [kind |-> "enriched", status |-> event.status,
                   body |-> EnrichedBody(event.body.value,
                                         [n \in DOMAIN e.mc |-> ValueOrNone(e.mc[n])])]

\* C10: whatever the interleaving, the response of each request is the
\* answer to its own upstream response, and while it is being handled its
\* locals hold values of its own upstream response only.
C10_RequestsIndependent ==
    \A r \in Reqs :
        /\ Done(r) => response[r] = AnswerTo(route[r], upstream[r], json_exc)
        /\ pc[r] \in {"extract", "aggregate"} => data[Frame(r)] = UpstreamValue(r)
        /\ pc[r] = "aggregate" =>
              metrics_container[Frame(r)] = Extract(UpstreamValue(r)).mc

\* Two requests answered with the enriched responses of two different
\* upstream objects.
C10_Witness ==
    \E r, q \in Reqs :
        /\ r # q
        /\ Done(r) /\ Done(q)
        /\ response[r].kind = "enriched" /\ response[q].kind = "enriched"
        /\ IsDict(UpstreamValue(r)) /\ IsDict(UpstreamValue(q))
        /\ UpstreamValue(r) # UpstreamValue(q)
        /\ response[r].body # response[q].body
----------------------------------------------------------------------------
(* Claims on the shapes the extraction recognises, checked under Spec *)

\* C11: when the fetch succeeds with a JSON value that is no object (an
\* array or a scalar), get_station_detail answers with the wrapper
\* {data: the upstream value, weighted_average_7d: {}} and the upstream's
\* status code.
C11_NonObjectWrapped ==
    \A r \in Reqs :
        (Done(r) /\ Detail(r) /\ FetchSucceeded(r) /\ ~IsDict(UpstreamValue(r))) =>
            /\ response[r].kind = "enriched"
            /\ response[r].status = upstream[r].status
            /\ response[r].body
                  = Obj([data |-> UpstreamValue(r), weighted_average_7d |-> Obj(EmptyDict)])
            /\ metrics_container[Frame(r)] = EmptyDict

\* The wrapper of an upstream array of daily samples, answered 203.
C11_Witness ==
    \E r \in Reqs :
        /\ Done(r) /\ Detail(r) /\ FetchSucceeded(r)
        /\ UpstreamValue(r) = SerA
        /\ upstream[r].status = 203
        /\ response[r].kind = "enriched"
        /\ response[r].status = 203
        /\ response[r].body.v["data"] = SerA
\* The first of the fields k1, k2 that the object m has, else the default.
FirstField(m, k1, k2, default) ==
    IF k1 \in DOMAIN m.v THEN m.v[k1]
    ELSE IF k2 \in DOMAIN m.v THEN m.v[k2]
    ELSE default

\* Rule 2 as stated, on the elements from i on: the name is the name field,
\* else the metric field, else "unknown"; the series is the data_points
\* field, else the days field, else []; the pair is recorded when the series
\* is a list; a later element overwrites an earlier one of the same name.
RECURSIVE StatedRule2(_, _, _)
StatedRule2(acc, seq, i) ==
    IF i > Len(seq) THEN acc
    ELSE LET name == FirstField(seq[i], "name", "metric", Str("unknown"))
             series == FirstField(seq[i], "data_points", "days", List(<<>>))
         IN  StatedRule2(IF IsList(series) THEN DictSet(acc, name.v, series) ELSE acc,
                         seq, i + 1)

\* A metrics list of objects whose name and metric fields are strings.
NamedObjects(seq) ==
    \A i \in 1..Len(seq) :
        /\ IsDict(seq[i])
        /\ \A k \in {"name", "metric"} \cap DOMAIN seq[i].v : seq[i].v[k].t = "str"

\* The extraction of request r is over and did not raise.
Extracted(r) ==
    /\ Detail(r)
    /\ FetchSucceeded(r)
    /\ pc[r] = "aggregate" \/ (Done(r) /\ response[r].kind = "enriched")

\* C12: when the upstream object has a key metrics whose value is a list (of
\* objects), metrics_container holds exactly what rule 2 records for its
\* elements in order, and nothing from any other top-level key.
C12_MetricsListRule ==
    \A r \in Reqs :
        (Extracted(r) /\ IsDict(UpstreamValue(r)) /\ HasMetricsList(UpstreamValue(r))
              /\ NamedObjects(UpstreamValue(r).v["metrics"].v)) =>
            metrics_container[Frame(r)]
                = StatedRule2(EmptyDict, UpstreamValue(r).v["metrics"].v, 1)
\* The list form as stated: a non-empty list whose first element is an object
\* containing average, or sample_size, or both min and max.
StatedListForm(val) ==
    /\ IsList(val)
    /\ Len(val.v) > 0
    /\ IsDict(val.v[1])
    /\ \/ "average" \in DOMAIN val.v[1].v
       \/ "sample_size" \in DOMAIN val.v[1].v
       \/ {"min", "max"} \subseteq DOMAIN val.v[1].v

\* The upstream value of r is an object without a metrics key holding a list,
\* and its extraction is over.
ScannedObject(r) ==
    /\ Extracted(r)
    /\ IsDict(UpstreamValue(r))
    /\ ~HasMetricsList(UpstreamValue(r))

\* C13: without a usable metrics key, a top-level key whose value is a list
\* is recorded, with the whole list as its series, exactly when the list is
\* non-empty and its first element is an object containing average, or
\* sample_size, or both min and max.
C13_ListFormRecorded ==
    \A r \in Reqs :
        ScannedObject(r) =>
            \A k \in DOMAIN UpstreamValue(r).v :
                LET val == UpstreamValue(r).v[k]
                    mc == metrics_container[Frame(r)]
                IN  IsList(val) =>
                        IF StatedListForm(val)
                        THEN k \in DOMAIN mc /\ mc[k] = val
                        ELSE k \notin DOMAIN mc

\* A list recognised by min and max alone is recorded whole.
C13_Witness ==
    \E r \in Reqs :
        /\ ScannedObject(r)
        /\ "pm10" \in DOMAIN UpstreamValue(r).v
        /\ UpstreamValue(r).v["pm10"] = SerMinMax
        /\ "pm10" \in DOMAIN metrics_container[Frame(r)]
        /\ metrics_container[Frame(r)]["pm10"] = SerMinMax
\* The data_points and days fields of the object val that are lists.
NestedSequences(val) ==
    {val.v[f] : f \in {x \in {"data_points", "days"} \cap DOMAIN val.v : IsList(val.v[x])}}

\* C14: without a usable metrics key, every top-level key whose value is an
\* object with a data_points field or a days field that is a list (an empty
\* list included, and whatever the other field holds) is recorded with that
\* nested list as its series.
C14_NestedFormRecorded ==
    \A r \in Reqs :
        ScannedObject(r) =>
            \A k \in DOMAIN UpstreamValue(r).v :
                LET val == UpstreamValue(r).v[k]
                    mc == metrics_container[Frame(r)]
                IN  (IsDict(val) /\ NestedSequences(val) # {}) =>
                        /\ k \in DOMAIN mc
                        /\ mc[k] \in NestedSequences(val)
----------------------------------------------------------------------------
(* The invariants of the walk, checked under SpecAgg *)

\* A series whose sample sizes are non-negative integers (a day may have none).
NonNegativeSizes(seq) ==
    \A i \in 1..Len(seq) :
        (IsDict(seq[i]) /\ "sample_size" \in DOMAIN seq[i].v) =>
            /\ seq[i].v["sample_size"].t = "num"
            /\ seq[i].v["sample_size"].v >= 0

\* The walk is under way, or over, on such a series.
Walking == wpc # "start" /\ IsList(days) /\ NonNegativeSizes(days.v)

\* The averages (in units of 10^-7) of the days consumed so far: the valid
\* ones before the position of the loop.
ConsumedAverages ==
    {AverageValue(days.v[i].v["average"]) : i \in {j \in 1..(idx - 1) : ValidDay(days.v[j])}}

MinOf(S) == CHOOSE x \in S : \A y \in S : x <= y
MaxOf(S) == CHOOSE x \in S : \A y \in S : y <= x

\* considered is at most 7 and counts the days consumed so far, and
\* total_samples is at least considered.
StepCounts ==
    /\ considered <= 7
    /\ considered = ValidCount(days.v, idx - 1)
    /\ total_samples >= considered

\* min * total_samples <= weighted_sum <= max * total_samples over the
\* averages of the days consumed so far.
SumsBetween ==
    ConsumedAverages # {} =>
        /\ MinOf(ConsumedAverages) * total_samples <= weighted_sum
        /\ weighted_sum <= MaxOf(ConsumedAverages) * total_samples

====
